---- MODULE Spec2Model ----
(***************************************************************************)
(* Agronomic weather advisory of thesuneet7/Farming.                       *)
(*                                                                         *)
(* Two implementations of the same pipeline live in the repository:        *)
(*   impl = "tool"    : agri_weather.get_agri_weather_forecast (one         *)
(*                      function: fetch, merge, metrics, flags, rules,     *)
(*                      summary, warnings, rounding);                      *)
(*   impl = "service" : weather_service.get_weather_data followed by       *)
(*                      crop_service.get_crop_recommendation.              *)
(*                                                                         *)
(* Numbers are fixed point, one unit = 0.0001 (so 38 degrees = 380000).    *)
(* A float is a record [k, v]: k = "num" (value v), "nan", "pinf", "ninf", *)
(* or "none" (a Python None kept in an object-dtype column).               *)
(* Texts are sequences of one-character strings, so that upper(), lower()  *)
(* and the substring test `in` are computed, not assumed.                  *)
(***************************************************************************)
EXTENDS Integers, Sequences, FiniteSets, TLC

VARIABLES
    impl,         \* which implementation serves the request
    crop_name,    \* the request's crop_name (a text, or NoCrop)
    pc,           \* position of the request in the pipeline
    daily_data,   \* daily_resp.json().get("daily", {})
    hourly_data,  \* hourly_resp.json().get("hourly", {})
    df,           \* the DataFrame: a sequence of rows (records)
    CROP_RULES,   \* the loaded rule dictionary: a sequence of <<key, rules>>
    result,       \* what the caller receives
    kb_file,      \* the knowledge-base file the request read, Unread before
    first,        \* the result of the first invocation, once a second is made
    log           \* the upstream calls and pipeline steps made, in order

vars == <<impl, crop_name, pc, daily_data, hourly_data, df, CROP_RULES, result,
          kb_file, first, log>>

---------------------------------------------------------------------------
(* Bounds of the model.                                                    *)

MaxDays == 2

MaxSamples == 1

---------------------------------------------------------------------------
(* Floats.                                                                 *)

Num(v) == [k |-> "num", v |-> v]

NaN == [k |-> "nan", v |-> 0]

None == [k |-> "none", v |-> 0]

PInf == [k |-> "pinf", v |-> 0]

NInf == [k |-> "ninf", v |-> 0]

\* x > c and x < c for a float x and a finite constant c: false for NaN.
GT(x, c) == x.k = "pinf" \/ (x.k = "num" /\ x.v > c)

\* Faulty variant: an undefined value counts as below every constant.
LTOrUndefined(x, c) == x.k \in {"ninf", "nan"} \/ (x.k = "num" /\ x.v < c)

LT(x, c) == x.k = "ninf" \/ (x.k = "num" /\ x.v < c)

\* floor(sqrt(n)) for n >= 0, by bisection on [lo, hi].
RECURSIVE SqrtBetween(_, _, _)
SqrtBetween(n, lo, hi) ==
    IF lo >= hi THEN lo
    ELSE LET mid == (lo + hi + 1) \div 2
         IN  IF mid * mid <= n THEN SqrtBetween(n, mid, hi)
                               ELSE SqrtBetween(n, lo, mid - 1)

ISqrt(n) == SqrtBetween(n, 0, IF n < 46340 THEN n ELSE 46340)

---------------------------------------------------------------------------
(* Texts.                                                                  *)

LowerChars == <<"a","b","c","d","e","f","g","h","i","j","k","l","m",
                "n","o","p","q","r","s","t","u","v","w","x","y","z">>

UpperChars == <<"A","B","C","D","E","F","G","H","I","J","K","L","M",
                "N","O","P","Q","R","S","T","U","V","W","X","Y","Z">>

UpperChar(c) ==
    IF \E i \in 1..Len(LowerChars) : LowerChars[i] = c
    THEN UpperChars[CHOOSE i \in 1..Len(LowerChars) : LowerChars[i] = c]
    ELSE c

LowerChar(c) ==
    IF \E i \in 1..Len(UpperChars) : UpperChars[i] = c
    THEN LowerChars[CHOOSE i \in 1..Len(UpperChars) : UpperChars[i] = c]
    ELSE c

\* str.upper() and str.lower()
Upper(s) == [i \in 1..Len(s) |-> UpperChar(s[i])]

Lower(s) == [i \in 1..Len(s) |-> LowerChar(s[i])]

\* `sub in s` for two texts
Contains(sub, s) ==
    \E i \in 0..(Len(s) - Len(sub)) :
        \A j \in 1..Len(sub) : s[i + j] = sub[j]

\* sep.join(parts)
RECURSIVE Join(_, _)
Join(sep, parts) ==
    IF parts = <<>> THEN <<>>
    ELSE IF Len(parts) = 1 THEN parts[1]
    ELSE parts[1] \o sep \o Join(sep, Tail(parts))

---------------------------------------------------------------------------
(* Flag labels.  The first character of a label is the coloured circle;    *)
(* weather_service.py holds the emoji, agri_weather.py holds the same      *)
(* bytes decoded to two other code points.  A code point outside ASCII is  *)
(* written as one character named by its number.                           *)

SvcRedCircle == <<"U+1F534">>

SvcYellowCircle == <<"U+1F7E1">>

SvcGreenCircle == <<"U+1F7E2">>

ToolRedCircle == <<"U+6E38", "U+B32E">>

ToolYellowCircle == <<"U+6E38", "U+B9AC">>

ToolGreenCircle == <<"U+6E38", "U+B9AD">>

HeatRedLabel == <<" ","R","e","d"," ","(","H","e","a","t"," ","s","t","r","e","s","s",")">>

HeatYellowLabel == <<" ","Y","e","l","l","o","w"," ","(","M","i","l","d"," ","s","t","r","e","s","s",")">>

SafeLabel == <<" ","G","r","e","e","n"," ","(","S","a","f","e",")">>

ColdRedLabel == <<" ","R","e","d"," ","(","F","r","o","s","t"," ","r","i","s","k",")">>

ColdYellowLabel == <<" ","Y","e","l","l","o","w"," ","(","C","h","i","l","l"," ","s","t","r","e","s","s",")">>

WaterRedLabel == <<" ","R","e","d"," ","(","I","r","r","i","g","a","t","i","o","n"," ","n","e","e","d","e","d",")">>

WaterYellowLabel == <<" ","Y","e","l","l","o","w"," ","(","M","o","n","i","t","o","r",")">>

WaterGreenLabel == <<" ","G","r","e","e","n"," ","(","S","u","f","f","i","c","i","e","n","t",")">>

WindRedLabel == <<" ","R","e","d"," ","(","L","o","d","g","i","n","g"," ","r","i","s","k",")">>

WindYellowLabel == <<" ","Y","e","l","l","o","w"," ","(","C","a","u","t","i","o","n",")">>

---------------------------------------------------------------------------
(* Thresholds of the two classifiers, in units of 0.0001.                  *)

SvcHeatRed == 380000

SvcHeatYellow == 320000

SvcColdRed == 50000

SvcColdYellow == 100000

SvcWaterRed == 5000

SvcWaterYellow == 10000

SvcWindRed == 600000

SvcWindYellow == 400000

ToolHeatRed == 380000

ToolHeatYellow == 320000

ToolColdRed == 50000

ToolColdYellow == 100000

ToolWaterRed == 5000

ToolWaterYellow == 10000

ToolWindRed == 600000

ToolWindYellow == 400000

---------------------------------------------------------------------------
(* The classifiers.  Comparing a Python None with a number raises          *)
(* TypeError; a NaN compares false with everything.                        *)

ClassifyRaises(row) ==
    \/ row.temp_max.k = "none"
    \/ row.temp_min.k = "none"
    \/ row.aridity_index.k = "none"
    \/ row.wind_gusts.k = "none"

\* Faulty variant: the upper thresholds of heat and wind taken as inclusive (>=).
AtLeast(x, c) == x.k = "pinf" \/ (x.k = "num" /\ x.v >= c)

ClassifyInclusive(row) ==
    [heat  |-> IF AtLeast(row.temp_max, SvcHeatRed) THEN SvcRedCircle \o HeatRedLabel
               ELSE IF GT(row.temp_max, SvcHeatYellow) THEN SvcYellowCircle \o HeatYellowLabel
               ELSE SvcGreenCircle \o SafeLabel,
     cold  |-> IF LT(row.temp_min, SvcColdRed) THEN SvcRedCircle \o ColdRedLabel
               ELSE IF LT(row.temp_min, SvcColdYellow) THEN SvcYellowCircle \o ColdYellowLabel
               ELSE SvcGreenCircle \o SafeLabel,
     water |-> IF LT(row.aridity_index, SvcWaterRed) THEN SvcRedCircle \o WaterRedLabel
               ELSE IF LT(row.aridity_index, SvcWaterYellow) THEN SvcYellowCircle \o WaterYellowLabel
               ELSE SvcGreenCircle \o WaterGreenLabel,
     wind  |-> IF AtLeast(row.wind_gusts, SvcWindRed) THEN SvcRedCircle \o WindRedLabel
               ELSE IF GT(row.wind_gusts, SvcWindYellow) THEN SvcYellowCircle \o WindYellowLabel
               ELSE SvcGreenCircle \o SafeLabel]

\* Faulty variant: the wind axis forgotten.
ClassifyThreeAxes(row) ==
    [heat  |-> IF GT(row.temp_max, SvcHeatRed) THEN SvcRedCircle \o HeatRedLabel
               ELSE IF GT(row.temp_max, SvcHeatYellow) THEN SvcYellowCircle \o HeatYellowLabel
               ELSE SvcGreenCircle \o SafeLabel,
     cold  |-> IF LT(row.temp_min, SvcColdRed) THEN SvcRedCircle \o ColdRedLabel
               ELSE IF LT(row.temp_min, SvcColdYellow) THEN SvcYellowCircle \o ColdYellowLabel
               ELSE SvcGreenCircle \o SafeLabel,
     water |-> IF LT(row.aridity_index, SvcWaterRed) THEN SvcRedCircle \o WaterRedLabel
               ELSE IF LT(row.aridity_index, SvcWaterYellow) THEN SvcYellowCircle \o WaterYellowLabel
               ELSE SvcGreenCircle \o WaterGreenLabel]

\* weather_service._classify_agri_flags
_classify_agri_flags(row) ==
    [heat  |-> IF GT(row.temp_max, SvcHeatRed) THEN SvcRedCircle \o HeatRedLabel
               ELSE IF GT(row.temp_max, SvcHeatYellow) THEN SvcYellowCircle \o HeatYellowLabel
               ELSE SvcGreenCircle \o SafeLabel,
     cold  |-> IF LT(row.temp_min, SvcColdRed) THEN SvcRedCircle \o ColdRedLabel
               ELSE IF LT(row.temp_min, SvcColdYellow) THEN SvcYellowCircle \o ColdYellowLabel
               ELSE SvcGreenCircle \o SafeLabel,
     water |-> IF LT(row.aridity_index, SvcWaterRed) THEN SvcRedCircle \o WaterRedLabel
               ELSE IF LT(row.aridity_index, SvcWaterYellow) THEN SvcYellowCircle \o WaterYellowLabel
               ELSE SvcGreenCircle \o WaterGreenLabel,
     wind  |-> IF GT(row.wind_gusts, SvcWindRed) THEN SvcRedCircle \o WindRedLabel
               ELSE IF GT(row.wind_gusts, SvcWindYellow) THEN SvcYellowCircle \o WindYellowLabel
               ELSE SvcGreenCircle \o SafeLabel]

\* Faulty variant: an undefined value gets a fourth label instead of falling through
\* to Green.
UnknownLabel == <<" ","U","n","k","n","o","w","n">>

ClassifyUnknown(row) ==
    [heat  |-> IF row.temp_max.k = "nan" THEN ToolGreenCircle \o UnknownLabel
               ELSE IF GT(row.temp_max, ToolHeatRed) THEN ToolRedCircle \o HeatRedLabel
               ELSE IF GT(row.temp_max, ToolHeatYellow) THEN ToolYellowCircle \o HeatYellowLabel
               ELSE ToolGreenCircle \o SafeLabel,
     cold  |-> IF row.temp_min.k = "nan" THEN ToolGreenCircle \o UnknownLabel
               ELSE IF LT(row.temp_min, ToolColdRed) THEN ToolRedCircle \o ColdRedLabel
               ELSE IF LT(row.temp_min, ToolColdYellow) THEN ToolYellowCircle \o ColdYellowLabel
               ELSE ToolGreenCircle \o SafeLabel,
     water |-> IF row.aridity_index.k = "nan" THEN ToolGreenCircle \o UnknownLabel
               ELSE IF LT(row.aridity_index, ToolWaterRed) THEN ToolRedCircle \o WaterRedLabel
               ELSE IF LT(row.aridity_index, ToolWaterYellow) THEN ToolYellowCircle \o WaterYellowLabel
               ELSE ToolGreenCircle \o WaterGreenLabel,
     wind  |-> IF row.wind_gusts.k = "nan" THEN ToolGreenCircle \o UnknownLabel
               ELSE IF GT(row.wind_gusts, ToolWindRed) THEN ToolRedCircle \o WindRedLabel
               ELSE IF GT(row.wind_gusts, ToolWindYellow) THEN ToolYellowCircle \o WindYellowLabel
               ELSE ToolGreenCircle \o SafeLabel]

\* agri_weather.get_agri_weather_forecast.classify_flags
\* Faulty variant: the thresholds of the cold axis taken as inclusive (<=).
AtMost(x, c) == x.k = "ninf" \/ (x.k = "num" /\ x.v <= c)

ClassifyColdInclusive(row) ==
    [heat  |-> IF GT(row.temp_max, ToolHeatRed) THEN ToolRedCircle \o HeatRedLabel
               ELSE IF GT(row.temp_max, ToolHeatYellow) THEN ToolYellowCircle \o HeatYellowLabel
               ELSE ToolGreenCircle \o SafeLabel,
     cold  |-> IF AtMost(row.temp_min, ToolColdRed) THEN ToolRedCircle \o ColdRedLabel
               ELSE IF AtMost(row.temp_min, ToolColdYellow) THEN ToolYellowCircle \o ColdYellowLabel
               ELSE ToolGreenCircle \o SafeLabel,
     water |-> IF LT(row.aridity_index, ToolWaterRed) THEN ToolRedCircle \o WaterRedLabel
               ELSE IF LT(row.aridity_index, ToolWaterYellow) THEN ToolYellowCircle \o WaterYellowLabel
               ELSE ToolGreenCircle \o WaterGreenLabel,
     wind  |-> IF GT(row.wind_gusts, ToolWindRed) THEN ToolRedCircle \o WindRedLabel
               ELSE IF GT(row.wind_gusts, ToolWindYellow) THEN ToolYellowCircle \o WindYellowLabel
               ELSE ToolGreenCircle \o SafeLabel]

classify_flags(row) ==
    [heat  |-> IF GT(row.temp_max, ToolHeatRed) THEN ToolRedCircle \o HeatRedLabel
               ELSE IF GT(row.temp_max, ToolHeatYellow) THEN ToolYellowCircle \o HeatYellowLabel
               ELSE ToolGreenCircle \o SafeLabel,
     cold  |-> IF LT(row.temp_min, ToolColdRed) THEN ToolRedCircle \o ColdRedLabel
               ELSE IF LT(row.temp_min, ToolColdYellow) THEN ToolYellowCircle \o ColdYellowLabel
               ELSE ToolGreenCircle \o SafeLabel,
     water |-> IF LT(row.aridity_index, ToolWaterRed) THEN ToolRedCircle \o WaterRedLabel
               ELSE IF LT(row.aridity_index, ToolWaterYellow) THEN ToolYellowCircle \o WaterYellowLabel
               ELSE ToolGreenCircle \o WaterGreenLabel,
     wind  |-> IF GT(row.wind_gusts, ToolWindRed) THEN ToolRedCircle \o WindRedLabel
               ELSE IF GT(row.wind_gusts, ToolWindYellow) THEN ToolYellowCircle \o WindYellowLabel
               ELSE ToolGreenCircle \o SafeLabel]

---------------------------------------------------------------------------
(* Derived metrics of one row (weather_service.py 92-94, agri_weather.py   *)
(* 118-120).  Arithmetic with a None (an object-dtype column) raises       *)
(* TypeError; arithmetic with a NaN gives NaN.                             *)

MetricsRaise(row) ==
    \/ row.temp_max.k = "none"
    \/ row.temp_min.k = "none"
    \/ row.precip_mm.k = "none"

\* (temp_min + temp_max) / 2
Temp(row) ==
    IF row.temp_min.k = "num" /\ row.temp_max.k = "num"
    THEN Num((row.temp_min.v + row.temp_max.v) \div 2)
    ELSE NaN

\* Faulty variant: the root is taken of the size of the range, so that a
\* day with temp_max < temp_min gets a number.
Et0Magnitude(row) ==
    IF row.temp_min.k = "num" /\ row.temp_max.k = "num"
    THEN LET d == row.temp_max.v - row.temp_min.v
             x == (row.temp_min.v + row.temp_max.v + 356000) \div 100
         IN  Num((23 * ISqrt(100 * (IF d < 0 THEN 0 - d ELSE d)) * x) \div 200000)
    ELSE NaN

\* 0.0023 * (temp_max - temp_min)**0.5 * (temp + 17.8); the power of a
\* negative number is NaN.  ISqrt(100 * d) is 1000 * sqrt(d / 10000), and
\* (temp_min + temp_max + 356000) / 100 is 200 * (temp + 17.8).
Et0(row) ==
    IF row.temp_min.k = "num" /\ row.temp_max.k = "num"
    THEN LET d == row.temp_max.v - row.temp_min.v
             x == (row.temp_min.v + row.temp_max.v + 356000) \div 100
         IN  IF d < 0 THEN NaN
             ELSE Num((23 * ISqrt(100 * d) * x) \div 200000)
    ELSE NaN

\* floor(10000 * p / d) for d > 0, without overflowing 32 bits
ScaledQuotient(p, d) == (p \div d) * 10000 + ((p % d) * 10000) \div d

\* Faulty variant: precip_mm / et0, without the offset.
AridityNoOffset(precip_mm, et0) ==
    IF precip_mm.k # "num" \/ et0.k # "num" THEN NaN
    ELSE IF et0.v > 0 THEN Num(ScaledQuotient(precip_mm.v, et0.v))
    ELSE IF et0.v < 0 THEN Num(ScaledQuotient(0 - precip_mm.v, 0 - et0.v))
    ELSE IF precip_mm.v > 0 THEN PInf
    ELSE IF precip_mm.v < 0 THEN NInf
    ELSE NaN

\* precip_mm / (et0 + 0.01); a float division by zero gives an infinity,
\* or NaN for 0 / 0.
AridityIndex(precip_mm, et0) ==
    IF precip_mm.k # "num" \/ et0.k # "num" THEN NaN
    ELSE LET d == et0.v + 100
             p == precip_mm.v
         IN  IF d > 0 THEN Num(ScaledQuotient(p, d))
             ELSE IF d < 0 THEN Num(ScaledQuotient(0 - p, 0 - d))
             ELSE IF p > 0 THEN PInf
             ELSE IF p < 0 THEN NInf
             ELSE NaN

\* a row with one more column
WithColumn(row, name, value) ==
    [n \in DOMAIN row \cup {name} |-> IF n = name THEN value ELSE row[n]]

\* Faulty variant: the aridity index is taken of the day's humidity instead
\* of its precipitation.
WithMetricsOfHumidity(row) ==
    LET r1 == WithColumn(row, "temp", Temp(row))
        r2 == WithColumn(r1, "et0", Et0(row))
    IN  WithColumn(r2, "aridity_index", AridityIndex(row.humidity, r2.et0))

WithMetrics(row) ==
    LET r1 == WithColumn(row, "temp", Temp(row))
        r2 == WithColumn(r1, "et0", Et0(row))
    IN  WithColumn(r2, "aridity_index", AridityIndex(row.precip_mm, r2.et0))

---------------------------------------------------------------------------
(* The DataFrame of the daily fields (weather_service.py 74-84,            *)
(* agri_weather.py 97-107).  A JSON null is a None.  pandas refuses lists  *)
(* of different lengths (ValueError); a column whose values are all None   *)
(* keeps them (object dtype), any other column turns its None into NaN.    *)

DailyLists(daily) ==
    <<daily.time, daily.temperature_2m_max, daily.temperature_2m_min,
      daily.precipitation_sum, daily.wind_speed_10m_max, daily.wind_gusts_10m_max>>

Ragged(lists) == \E i, j \in 1..Len(lists) : Len(lists[i]) # Len(lists[j])

Column(list) ==
    IF \A i \in 1..Len(list) : list[i].k = "none" THEN list
    ELSE [i \in 1..Len(list) |-> IF list[i].k = "none" THEN NaN ELSE list[i]]

DataFrame(daily) ==
    [i \in 1..Len(daily.time) |->
        [date       |-> daily.time[i],
         temp_max   |-> Column(daily.temperature_2m_max)[i],
         temp_min   |-> Column(daily.temperature_2m_min)[i],
         precip_mm  |-> Column(daily.precipitation_sum)[i],
         wind_speed |-> Column(daily.wind_speed_10m_max)[i],
         wind_gusts |-> Column(daily.wind_gusts_10m_max)[i]]]

---------------------------------------------------------------------------
(* Humidity (weather_service.py 86-90, agri_weather.py 109-113).           *)

\* pd.to_datetime(time).dt.strftime("%Y-%m-%d"): the date of a timestamp
StrfDate(ts) == ts.date

RECURSIVE SumNums(_)
SumNums(xs) ==
    IF xs = <<>> THEN 0
    ELSE (IF Head(xs).k = "num" THEN Head(xs).v ELSE 0) + SumNums(Tail(xs))

IsNum(x) == x.k = "num"

\* Series.mean(): the mean of the values that are not NaN, NaN if there is none
Mean(xs) ==
    LET nums == SelectSeq(xs, IsNum)
    IN  IF nums = <<>> THEN NaN ELSE Num(SumNums(nums) \div Len(nums))

\* groupby("date")["humidity"].mean(): one mean per date that has a sample
HumidityDaily(hourly) ==
    LET n == Len(hourly.time)
        dates == {StrfDate(hourly.time[i]) : i \in 1..n}
        Of(d) == LET Idx == {i \in 1..n : StrfDate(hourly.time[i]) = d}
                     Pick(i) == i \in Idx
                     idxs == SelectSeq([i \in 1..n |-> i], Pick)
                 IN  [j \in 1..Len(idxs) |-> Column(hourly.relative_humidity_2m)[idxs[j]]]
    IN  [d \in dates |-> Mean(Of(d))]

\* Faulty variant: how="inner", which drops the days that have no sample.
MergeInner(frame, hd) ==
    LET Sampled(row) == row.date \in DOMAIN hd
        kept == SelectSeq(frame, Sampled)
    IN  [i \in 1..Len(kept) |-> WithColumn(kept[i], "humidity", hd[kept[i].date])]

\* df.merge(humidity_daily, on="date", how="left")
MergeLeft(frame, hd) ==
    [i \in 1..Len(frame) |->
        WithColumn(frame[i], "humidity",
                   IF frame[i].date \in DOMAIN hd THEN hd[frame[i].date] ELSE NaN)]

\* fillna(method='ffill'): a NaN takes the last value before it that is not NaN
RECURSIVE FFillAt(_, _)
FFillAt(xs, i) ==
    IF xs[i].k # "nan" THEN xs[i]
    ELSE IF i = 1 THEN NaN
    ELSE FFillAt(xs, i - 1)

FFill(xs) == [i \in 1..Len(xs) |-> FFillAt(xs, i)]

\* fillna(method='bfill'): a NaN takes the first value after it that is not NaN
RECURSIVE BFillAt(_, _)
BFillAt(xs, i) ==
    IF xs[i].k # "nan" THEN xs[i]
    ELSE IF i = Len(xs) THEN NaN
    ELSE BFillAt(xs, i + 1)

BFill(xs) == [i \in 1..Len(xs) |-> BFillAt(xs, i)]

\* Faulty variant: the gaps are filled backward first, then forward.
WithHumidityBackFirst(frame, hourly) ==
    LET merged == MergeLeft(frame, HumidityDaily(hourly))
        filled == FFill(BFill([i \in 1..Len(merged) |-> merged[i].humidity]))
    IN  [i \in 1..Len(merged) |-> WithColumn(merged[i], "humidity", filled[i])]

WithHumidity(frame, hourly) ==
    LET merged == MergeLeft(frame, HumidityDaily(hourly))
        filled == BFill(FFill([i \in 1..Len(merged) |-> merged[i].humidity]))
    IN  [i \in 1..Len(merged) |-> WithColumn(merged[i], "humidity", filled[i])]

---------------------------------------------------------------------------
(* The knowledge base.  A dictionary is the sequence of its insertions,    *)
(* <<key, value>>; a later insertion of a key replaces the earlier one.    *)

RECURSIVE NameEntries(_, _)
NameEntries(crops, lower) ==
    IF crops = <<>> THEN <<>>
    ELSE <<<<IF lower THEN Lower(Head(crops).name) ELSE Head(crops).name,
             Head(crops).rules>>>> \o NameEntries(Tail(crops), lower)

RECURSIVE AliasEntries(_, _)
AliasEntries(crops, lower) ==
    IF crops = <<>> THEN <<>>
    ELSE LET c == Head(crops)
         IN  [i \in 1..Len(c.aliases) |->
                 <<IF lower THEN Lower(c.aliases[i]) ELSE c.aliases[i], c.rules>>]
             \o AliasEntries(Tail(crops), lower)

\* crop_service._load_crop_rules, lines 13-17: keys are lower-cased
_load_crop_rules(kb) == NameEntries(kb.crops, TRUE) \o AliasEntries(kb.crops, TRUE)

\* agri_weather.get_agri_weather_forecast, lines 127-129: keys are kept as written
ToolCropRules(kb) == NameEntries(kb.crops, FALSE) \o AliasEntries(kb.crops, FALSE)

\* dict.get(key): the value inserted last under key, or None
DictGet(dict, key) ==
    LET Idx == {i \in 1..Len(dict) : dict[i][1] = key}
    IN  IF Idx = {} THEN [found |-> FALSE, rules |-> <<>>]
        ELSE [found |-> TRUE,
              rules |-> dict[CHOOSE i \in Idx : \A j \in Idx : j <= i][2]]

\* Faulty variant: only a crop that is missing counts as without rules.
NotFound(got) == ~got.found

\* `not rules`: None and the empty list are both false
NotRules(got) == ~got.found \/ got.rules = <<>>

---------------------------------------------------------------------------
(* Rule evaluation.  A condition is one comparison, field op constant,     *)
(* evaluated by eval() with the row's columns as its variables: a name     *)
(* that is no column raises NameError, a None, a text or a dict compared   *)
(* with a number raises TypeError, a NaN compares false.                   *)

NumericColumns ==
    {"temp_max", "temp_min", "precip_mm", "wind_speed", "wind_gusts",
     "humidity", "temp", "et0", "aridity_index"}

EvalRaises(when, row) ==
    \/ when.field \notin DOMAIN row
    \/ when.field \notin NumericColumns
    \/ row[when.field].k = "none"

EvalWhen(when, row) ==
    IF when.op = "<" THEN LT(row[when.field], when.k)
    ELSE GT(row[when.field], when.k)

\* Faulty variant: the severity printed as written, not upper-cased.
RenderAsWritten(rule) == <<"[">> \o rule.severity \o <<"]", " ">> \o rule.advisory

\* Faulty variant: a counter kept between invocations numbers the entries
\* of every invocation after the first.
RenderCounted(rule) ==
    <<"[">> \o Upper(rule.severity) \o <<"]", " ">> \o rule.advisory
    \o (IF first.kind = "ok" THEN <<" ", "(", "2", ")">> ELSE <<>>)

\* f"[{rule['severity'].upper()}] {rule['advisory']}"
Render(rule) == <<"[">> \o Upper(rule.severity) \o <<"]", " ">> \o rule.advisory

\* Faulty variant: the try around the whole loop, so that a condition that
\* raises ends the loop and the rules after it are lost.
RECURSIVE RecsAbort(_, _)
RecsAbort(rules, row) ==
    IF rules = <<>> THEN <<>>
    ELSE LET rule == Head(rules)
         IN  IF EvalRaises(rule.when, row) THEN <<>>
             ELSE IF EvalWhen(rule.when, row)
                  THEN <<<<"[">> \o Upper(rule.severity) \o <<"]", " ">> \o rule.advisory>>
                       \o RecsAbort(Tail(rules), row)
             ELSE RecsAbort(Tail(rules), row)

\* the loop over the rules: try / eval / append, except: continue
RECURSIVE Recs(_, _)
Recs(rules, row) ==
    IF rules = <<>> THEN <<>>
    ELSE LET rule == Head(rules)
             rest == Recs(Tail(rules), row)
         IN  IF EvalRaises(rule.when, row) THEN rest
             ELSE IF EvalWhen(rule.when, row) THEN <<Render(rule)>> \o rest
             ELSE rest

Separator == <<" ", "|", " ">>

SvcFavorable == <<"C","o","n","d","i","t","i","o","n","s"," ","a","r","e"," ","f","a","v","o","r","a","b","l","e","."," ","M","o","n","i","t","o","r"," ","t","h","e"," ","c","r","o","p",".">>

ToolFavorable == <<"C","o","n","d","i","t","i","o","n","s"," ","f","a","v","o","r","a","b","l","e",".">>

\* crop_service._generate_recommendation_for_row
_generate_recommendation_for_row(row, rules) ==
    LET recs == Recs(rules, row)
    IN  IF recs # <<>> THEN Join(Separator, recs) ELSE SvcFavorable

\* f"No knowledge base for '{crop_name}'."
NoKnowledgeBase(name) ==
    <<"N","o"," ","k","n","o","w","l","e","d","g","e"," ","b","a","s","e"," ","f","o","r"," ","'">>
    \o name \o <<"'", ".">>

\* agri_weather.get_agri_weather_forecast.crop_recommendation
crop_recommendation(row, crop_rules, name) ==
    LET got == DictGet(crop_rules, Lower(name))
        recs == Recs(got.rules, row)
    IN  IF NotRules(got) THEN NoKnowledgeBase(name)
        ELSE IF recs # <<>> THEN Join(Separator, recs) ELSE ToolFavorable

---------------------------------------------------------------------------
(* Summary, warnings and rounding of the tool (agri_weather.py 139-161).   *)

\* str(flags): the dict as Python prints it
StrFlags(flags) ==
    <<"{","'","h","e","a","t","'",":"," ","'">> \o flags.heat
    \o <<"'",","," ","'","c","o","l","d","'",":"," ","'">> \o flags.cold
    \o <<"'",","," ","'","w","a","t","e","r","'",":"," ","'">> \o flags.water
    \o <<"'",","," ","'","w","i","n","d","'",":"," ","'">> \o flags.wind
    \o <<"'","}">>

\* ''.join(str(f) for f in df['flags'])
AllFlagsText(frame) == Join(<<>>, [i \in 1..Len(frame) |-> StrFlags(frame[i].flags)])

RedInFlag == <<"R","e","d">>

RedInText == <<"R","E","D">>

\* Faulty variant: the verdict reads the recommendations instead of the flags.
VerdictOfRecommendations(frame) ==
    IF \E i \in 1..Len(frame) : Contains(RedInText, frame[i].recommendations)
    THEN "challenging" ELSE "favorable"

\* the verdict of the summary, line 143
Verdict(frame) ==
    IF ~Contains(RedInFlag, AllFlagsText(frame)) THEN "favorable" ELSE "challenging"

\* Faulty variant: only an entry saying RED makes a day critical.
IsCriticalByEntry(row) == Contains(RedInText, row.recommendations)

\* the test of line 149
IsCritical(row) ==
    \/ Contains(RedInText, row.recommendations)
    \/ \E a \in DOMAIN row.flags : Contains(RedInFlag, row.flags[a])

\* f"On {row['date']}: {row['recommendations']}"
WarningLine(row) == <<"On ", row.date, ": ", row.recommendations>>

RECURSIVE CriticalWarnings(_)
CriticalWarnings(frame) ==
    IF frame = <<>> THEN <<>>
    ELSE (IF IsCritical(Head(frame)) THEN <<WarningLine(Head(frame))>> ELSE <<>>)
         \o CriticalWarnings(Tail(frame))

NoCriticalWarnings == <<"N","o"," ","c","r","i","t","i","c","a","l"," ","w","a","r","n","i","n","g","s"," ","i","d","e","n","t","i","f","i","e","d","."," ","C","o","n","d","i","t","i","o","n","s"," ","a","r","e"," ","g","e","n","e","r","a","l","l","y"," ","s","t","a","b","l","e",".">>

\* Faulty variant: the list as collected, empty when no day is critical.
KeyInsightsAsCollected(critical_warnings) == critical_warnings

\* critical_warnings if critical_warnings else ["No critical warnings ..."]
KeyInsights(critical_warnings) ==
    IF critical_warnings # <<>> THEN critical_warnings ELSE <<NoCriticalWarnings>>

\* round half to even to a multiple of step
RoundTo(v, step) ==
    LET q == v \div step
        r == v % step
    IN  IF 2 * r < step THEN q * step
        ELSE IF 2 * r > step THEN (q + 1) * step
        ELSE IF q % 2 = 0 THEN q * step ELSE (q + 1) * step

\* df.round(2): every float of a row to two decimals
RoundRow(row) ==
    [n \in DOMAIN row |->
        IF n \in NumericColumns /\ row[n].k = "num"
        THEN Num(RoundTo(row[n].v, 100)) ELSE row[n]]

\* the summary: the two figures printed with one decimal, and the verdict
Summary(frame) ==
    LET maxes == [i \in 1..Len(frame) |-> frame[i].temp_max]
        rain  == [i \in 1..Len(frame) |-> frame[i].precip_mm]
        avg   == Mean(maxes)
    IN  [avg_temp_max |-> IF avg.k = "num" THEN Num(RoundTo(avg.v, 1000)) ELSE avg,
         total_precip |-> Num(RoundTo(SumNums(rain), 1000)),
         verdict      |-> Verdict(frame)]

---------------------------------------------------------------------------
(* What the collaborators may answer, and what may be asked.               *)

Dates == <<"2024-06-01", "2024-06-02", "2024-06-03", "2024-06-04">>

Deg(n) == Num(n * 10000)

Day(tmax, tmin, precip, speed, gusts) ==
    [tmax |-> tmax, tmin |-> tmin, precip |-> precip, speed |-> speed, gusts |-> gusts]

\* the three days of the Kanpur Nagar scenario
KanpurDay1 == Day(Deg(39), Deg(6), Deg(0), Deg(15), Deg(20))

KanpurDay2 == Day(Deg(30), Deg(12), Deg(5), Deg(15), Deg(20))

KanpurDay3 == Day(Deg(33), Deg(4), Deg(0), Deg(15), Deg(65))

\* no flag is Red, the heat rule of the knowledge base holds
WarmWetDay == Day(Deg(36), Deg(12), Deg(5), Deg(15), Deg(20))

\* no flag is Red, only the rain rule holds
RainyDay == Day(Deg(30), Deg(12), Deg(10), Deg(15), Deg(20))

\* days of null values
NullTempDay == Day(None, Deg(12), Deg(5), Deg(15), Deg(20))

NullGustDay == Day(Deg(30), Deg(12), Deg(5), Deg(15), None)

Days == {KanpurDay1, KanpurDay2, KanpurDay3, WarmWetDay, RainyDay, NullTempDay, NullGustDay}

DailyOf(ds) ==
    [time                 |-> [i \in 1..Len(ds) |-> Dates[i]],
     temperature_2m_max   |-> [i \in 1..Len(ds) |-> ds[i].tmax],
     temperature_2m_min   |-> [i \in 1..Len(ds) |-> ds[i].tmin],
     precipitation_sum    |-> [i \in 1..Len(ds) |-> ds[i].precip],
     wind_speed_10m_max   |-> [i \in 1..Len(ds) |-> ds[i].speed],
     wind_gusts_10m_max   |-> [i \in 1..Len(ds) |-> ds[i].gusts]]

\* a response that lacks one of the daily fields
RaggedDaily == [DailyOf(<<KanpurDay2>>) EXCEPT !.temperature_2m_max = <<>>]

DailyOver(D) ==
    {DailyOf(ds) : ds \in UNION {[1..n -> D] : n \in 0..MaxDays}} \cup {RaggedDaily}

DailyResponses == DailyOver(Days)

Samples ==
    {[time |-> [date |-> Dates[1], hour |-> 0], humidity |-> Deg(50)],
     [time |-> [date |-> Dates[2], hour |-> 12], humidity |-> Deg(70)]}

HourlyOf(ss) ==
    [time                 |-> [i \in 1..Len(ss) |-> ss[i].time],
     relative_humidity_2m |-> [i \in 1..Len(ss) |-> ss[i].humidity]]

HourlyResponses ==
    {HourlyOf(ss) : ss \in UNION {[1..n -> Samples] : n \in 0..MaxSamples}}

Rule(field, op, k, severity, advisory) ==
    [when |-> [field |-> field, op |-> op, k |-> k],
     severity |-> severity, advisory |-> advisory]

FrostRule ==
    Rule("temp_min", "<", 50000, <<"h","i","g","h">>,
         <<"f","r","o","s","t"," ","r","i","s","k",","," ","d","e","l","a","y"," ","s","o","w","i","n","g">>)

\* soil_moisture is no column of the DataFrame
SoilRule ==
    Rule("soil_moisture", "<", 200000, <<"r","e","d">>,
         <<"c","h","e","c","k"," ","s","o","i","l">>)

HeatRule ==
    Rule("temp_max", ">", 320000, <<"r","e","d">>,
         <<"h","e","a","t"," ","s","t","r","e","s","s",","," ","i","r","r","i","g","a","t","e">>)

RainRule ==
    Rule("precip_mm", ">", 80000, <<"l","o","w">>,
         <<"R","E","D","U","C","E"," ","i","r","r","i","g","a","t","i","o","n">>)

WheatRules == <<FrostRule, SoilRule, HeatRule, RainRule>>

Crop(name, aliases, rules) == [name |-> name, aliases |-> aliases, rules |-> rules]

Wheat == <<"w","h","e","a","t">>

Gehun == <<"g","e","h","u","n">>

Rice == <<"r","i","c","e">>

Maize == <<"m","a","i","z","e">>

TitleWheat == <<"W","h","e","a","t">>

TitleGehun == <<"G","e","h","u","n">>

\* crop_name when the caller gives none
NoCrop == <<"None">>

KbFile(crops) == [state |-> "ok", crops |-> crops]

\* a knowledge base written in lower case, and one written in title case
LowerKb == KbFile(<<Crop(Wheat, <<Gehun>>, WheatRules), Crop(Rice, <<>>, <<>>)>>)

TitleKb == KbFile(<<Crop(TitleWheat, <<TitleGehun>>, WheatRules), Crop(Rice, <<>>, <<>>)>>)

BadKb(state) == [state |-> state, crops |-> <<>>]

KbFiles == {BadKb("missing"), BadKb("invalid_json"), BadKb("no_key"), LowerKb, TitleKb}

CropNames == {Wheat, TitleGehun, Rice, Maize}

---------------------------------------------------------------------------
(* The request.                                                            *)

NoDaily == DailyOf(<<>>)

NoHourly == HourlyOf(<<>>)

Pending == [kind |-> "pending"]

\* no knowledge-base file has been opened
Unread == [state |-> "unread", crops |-> <<>>]

\* the record of a call or a step: what was done and how it ended
Logged(step, outcome) == log' = Append(log, [step |-> step, outcome |-> outcome])

\* a step that ended the request with an error failed, any other went through
Done(step) == Logged(step, IF result'.kind \in {"error", "raised"} THEN "failed" ELSE "ok")

\* the tool returns {"error": message}
ErrorPayload(message) == [kind |-> "error", error |-> message]

\* an exception leaves the function
Raised(exc) == [kind |-> "raised", exc |-> exc]

InitOver(names) ==
    /\ impl \in {"tool", "service"}
    /\ crop_name \in names \cup {NoCrop}
    /\ impl = "tool" => crop_name # NoCrop
    /\ pc = "geocode"
    /\ daily_data = NoDaily
    /\ hourly_data = NoHourly
    /\ df = <<>>
    /\ CROP_RULES = <<>>
    /\ result = Pending
    /\ kb_file = Unread
    /\ first = Pending
    /\ log = <<>>

Init == InitOver(CropNames)

Finish(r) ==
    /\ pc' = "done"
    /\ result' = r
    /\ UNCHANGED <<kb_file, first, impl, crop_name, daily_data, hourly_data, df, CROP_RULES>>

\* Faulty variant: a district without a match is given coordinates all the
\* same, and the forecast is fetched for them.
GetCoordsAnyway ==
    /\ pc = "geocode"
    /\ \E outcome \in {"no_key", "request_error", "no_match", "found"} :
        /\ Logged("geocoding", outcome)
        /\ CASE outcome = "no_key" -> Finish(Raised("ValueError"))
          [] outcome = "request_error" ->
                IF impl = "tool" THEN Finish(ErrorPayload("request failed"))
                ELSE Finish(Raised("ConnectionError"))
          [] OTHER ->
                /\ pc' = "fetch_daily"
                /\ UNCHANGED <<kb_file, first, impl, crop_name, daily_data, hourly_data, df, CROP_RULES, result>>

\* agri_weather.py 21-22 and 72-75 (get_coords, 27-35);
\* weather_service.py 55 (_get_coords, 13-28)
GetCoords ==
    /\ pc = "geocode"
    /\ \E outcome \in {"no_key", "request_error", "no_match", "found"} :
        /\ Logged("geocoding", outcome)
        /\ CASE outcome = "no_key" -> Finish(Raised("ValueError"))
          [] outcome = "request_error" ->
                IF impl = "tool" THEN Finish(ErrorPayload("request failed"))
                ELSE Finish(Raised("ConnectionError"))
          [] outcome = "no_match" ->
                IF impl = "tool" THEN Finish(ErrorPayload("No coordinates found"))
                ELSE Finish(Raised("ValueError"))
          [] OTHER ->
                /\ pc' = "fetch_daily"
                /\ UNCHANGED <<kb_file, first, impl, crop_name, daily_data, hourly_data, df, CROP_RULES, result>>

\* Faulty variant: a forecast call that failed is made again.
FetchRetried ==
    /\ pc' = pc
    /\ UNCHANGED <<kb_file, first, impl, crop_name, daily_data, hourly_data, df, CROP_RULES, result>>

\* agri_weather.py 92-93, weather_service.py 71-72
FetchFailed ==
    IF impl = "tool" THEN Finish(ErrorPayload("Failed to fetch weather data"))
    ELSE Finish(Raised("ConnectionError"))

\* agri_weather.py 85-87, weather_service.py 64-66
FetchDaily(responses) ==
    /\ pc = "fetch_daily"
    /\ \/ FetchFailed
       \/ \E d \in responses :
            /\ daily_data' = d
            /\ pc' = "fetch_hourly"
            /\ UNCHANGED <<kb_file, first, impl, crop_name, hourly_data, df, CROP_RULES, result>>
    /\ Done("daily")

\* agri_weather.py 89-91, weather_service.py 68-70
FetchHourly(hourlies) ==
    /\ pc = "fetch_hourly"
    /\ \/ FetchFailed
       \/ \E h \in hourlies :
            /\ hourly_data' = h
            /\ pc' = "frame"
            /\ UNCHANGED <<kb_file, first, impl, crop_name, daily_data, df, CROP_RULES, result>>
    /\ Done("hourly")

\* Faulty variant: the frame is used without the test of df.empty.
BuildFrameUnchecked ==
    /\ pc = "frame"
    /\ IF Ragged(DailyLists(daily_data)) THEN Finish(Raised("ValueError"))
       ELSE /\ df' = DataFrame(daily_data)
            /\ pc' = "merge"
            /\ UNCHANGED <<kb_file, first, impl, crop_name, daily_data, hourly_data, CROP_RULES, result>>
    /\ Done("frame")

\* agri_weather.py 97-107, weather_service.py 74-84
BuildFrame ==
    /\ pc = "frame"
    /\ IF Ragged(DailyLists(daily_data)) THEN Finish(Raised("ValueError"))
       ELSE IF Len(daily_data.time) = 0 THEN
            IF impl = "tool" THEN Finish(ErrorPayload("Could not construct DataFrame"))
            ELSE Finish(Raised("ValueError"))
       ELSE /\ df' = DataFrame(daily_data)
            /\ pc' = "merge"
            /\ UNCHANGED <<kb_file, first, impl, crop_name, daily_data, hourly_data, CROP_RULES, result>>
    /\ Done("frame")

\* agri_weather.py 109-113, weather_service.py 86-90
MergeHumidity ==
    /\ pc = "merge"
    /\ IF Len(hourly_data.time) # Len(hourly_data.relative_humidity_2m)
       THEN Finish(Raised("ValueError"))
       ELSE /\ df' = WithHumidity(df, hourly_data)
            /\ pc' = "metrics"
            /\ UNCHANGED <<kb_file, first, impl, crop_name, daily_data, hourly_data, CROP_RULES, result>>
    /\ Done("humidity_merge")

\* agri_weather.py 118-120, weather_service.py 92-94
ComputeMetrics ==
    /\ pc = "metrics"
    /\ IF \E i \in 1..Len(df) : MetricsRaise(df[i]) THEN Finish(Raised("TypeError"))
       ELSE /\ df' = [i \in 1..Len(df) |-> WithMetrics(df[i])]
            /\ pc' = "flags"
            /\ UNCHANGED <<kb_file, first, impl, crop_name, daily_data, hourly_data, CROP_RULES, result>>
    /\ Done("metrics")

\* Faulty variant: the day is classified by its rounded values.
FlagsOfRounded(row) ==
    IF impl = "tool" THEN classify_flags(RoundRow(row))
    ELSE _classify_agri_flags(RoundRow(row))

Flags(row) == IF impl = "tool" THEN classify_flags(row) ELSE _classify_agri_flags(row)

\* agri_weather.py 121; weather_service.py 95-97, which ends get_weather_data
ClassifyFlags ==
    /\ pc = "flags"
    /\ IF \E i \in 1..Len(df) : ClassifyRaises(df[i]) THEN Finish(Raised("TypeError"))
       ELSE /\ df' = [i \in 1..Len(df) |-> WithColumn(df[i], "flags", Flags(df[i]))]
            /\ pc' = IF impl = "service" /\ crop_name = NoCrop THEN "no_crop" ELSE "load_kb"
            /\ UNCHANGED <<kb_file, first, impl, crop_name, daily_data, hourly_data, CROP_RULES, result>>
    /\ Done("flags")

GeneralWeather == <<"g","e","n","e","r","a","l"," ","w","e","a","t","h","e","r"," ","d","a","t","a">>

\* The caller of the two services when no crop is given: the rules are not
\* loaded, every day gets the general text.
NoCropRecommendation ==
    /\ pc = "no_crop"
    /\ LET out == [i \in 1..Len(df) |-> WithColumn(df[i], "recommendations", GeneralWeather)]
       IN  /\ df' = out
           /\ pc' = "done"
           /\ result' = [kind |-> "ok", daily_forecast |-> out]
    /\ UNCHANGED <<kb_file, first, impl, crop_name, daily_data, hourly_data, CROP_RULES>>
    /\ Done("general_text")

\* Faulty variant: a missing file is read as a knowledge base without crops,
\* and every day is told that the crop has none.
LoadKbPerDay(files) ==
    /\ pc = "load_kb"
    /\ \E kb \in (IF kb_file = Unread THEN files ELSE {kb_file}) :
        /\ Logged("load_kb", kb.state)
        /\ CASE kb.state = "missing" ->
                /\ CROP_RULES' = <<>>
                /\ pc' = "recommend"
                /\ UNCHANGED <<kb_file, first, impl, crop_name, daily_data, hourly_data, df, result>>
          [] kb.state = "invalid_json" ->
                IF impl = "tool" THEN Finish(Raised("JSONDecodeError"))
                ELSE Finish(Raised("ValueError"))
          [] kb.state = "no_key" ->
                IF impl = "tool" THEN Finish(Raised("KeyError"))
                ELSE Finish(Raised("ValueError"))
          [] OTHER ->
                /\ CROP_RULES' = IF impl = "tool" THEN ToolCropRules(kb) ELSE _load_crop_rules(kb)
                /\ kb_file' = kb
                /\ pc' = "recommend"
                /\ UNCHANGED <<first, impl, crop_name, daily_data, hourly_data, df, result>>

\* agri_weather.py 124-131; crop_service.py 38 (_load_crop_rules, 7-21)
LoadKb(files) ==
    /\ pc = "load_kb"
    /\ \E kb \in (IF kb_file = Unread THEN files ELSE {kb_file}) :
        /\ Logged("load_kb", kb.state)
        /\ CASE kb.state = "missing" ->
                IF impl = "tool" THEN Finish(ErrorPayload("crop_knowledgebase.json not found."))
                ELSE Finish(Raised("FileNotFoundError"))
          [] kb.state = "invalid_json" ->
                IF impl = "tool" THEN Finish(Raised("JSONDecodeError"))
                ELSE Finish(Raised("ValueError"))
          [] kb.state = "no_key" ->
                IF impl = "tool" THEN Finish(Raised("KeyError"))
                ELSE Finish(Raised("ValueError"))
          [] OTHER ->
                /\ CROP_RULES' = IF impl = "tool" THEN ToolCropRules(kb) ELSE _load_crop_rules(kb)
                /\ kb_file' = kb
                /\ pc' = "recommend"
                /\ UNCHANGED <<first, impl, crop_name, daily_data, hourly_data, df, result>>

\* agri_weather.py 133
ToolRecommend ==
    /\ pc = "recommend"
    /\ impl = "tool"
    /\ df' = [i \in 1..Len(df) |->
                WithColumn(df[i], "recommendations",
                           crop_recommendation(df[i], CROP_RULES, crop_name))]
    /\ pc' = "respond"
    /\ UNCHANGED <<kb_file, first, impl, crop_name, daily_data, hourly_data, CROP_RULES, result>>
    /\ Done("rules")

\* crop_service.get_crop_recommendation, lines 40-51
get_crop_recommendation ==
    /\ pc = "recommend"
    /\ impl = "service"
    /\ LET crop_ruleset == DictGet(CROP_RULES, Lower(crop_name))
           df_with_recs ==
               [i \in 1..Len(df) |->
                   WithColumn(df[i], "recommendations",
                              _generate_recommendation_for_row(df[i], crop_ruleset.rules))]
       IN  IF NotRules(crop_ruleset) THEN Finish(Raised("ValueError"))
           ELSE /\ df' = df_with_recs
                /\ pc' = "done"
                /\ result' = [kind |-> "ok", daily_forecast |-> df_with_recs]
                /\ UNCHANGED <<kb_file, first, impl, crop_name, daily_data, hourly_data, CROP_RULES>>
    /\ Done("rules")

\* agri_weather.py 139-161
Respond ==
    /\ pc = "respond"
    /\ LET critical_warnings == CriticalWarnings(df)
       IN  result' =
             [kind           |-> "ok",
              summary        |-> Summary(df),
              key_insights   |-> KeyInsights(critical_warnings),
              daily_forecast |-> [i \in 1..Len(df) |-> RoundRow(df[i])]]
    /\ pc' = "done"
    /\ UNCHANGED <<kb_file, first, impl, crop_name, daily_data, hourly_data, df, CROP_RULES>>
    /\ Done("summary")

StepWith(responses, hourlies, files) ==
    \/ GetCoords
    \/ FetchDaily(responses)
    \/ FetchHourly(hourlies)
    \/ BuildFrame
    \/ MergeHumidity
    \/ ComputeMetrics
    \/ ClassifyFlags
    \/ NoCropRecommendation
    \/ LoadKb(files)
    \/ ToolRecommend
    \/ get_crop_recommendation
    \/ Respond

Step(responses, files) == StepWith(responses, HourlyResponses, files)

Next == Step(DailyResponses, KbFiles)

Spec == Init /\ [][Next]_vars

---------------------------------------------------------------------------
(* The classifiers on their thresholds: a first day that takes every       *)
(* combination of values on and beside the thresholds, null included, and  *)
(* a second day of plain values (so that a null becomes a NaN).            *)

BoundaryDays ==
    {Day(tmax, tmin, precip, Deg(15), gusts) :
        tmax   \in {None, Deg(4), Deg(10), Deg(32), Num(320100), Deg(38), Num(380100)},
        tmin   \in {None, Num(49900), Deg(5), Num(99900), Deg(10)},
        precip \in {None, Deg(0), Num(49), Num(50), Num(99), Num(100), Deg(5)},
        gusts  \in {None, Deg(40), Num(400100), Deg(60), Num(600100)}}

BoundaryResponses ==
    {DailyOf(<<d, KanpurDay2>>) : d \in BoundaryDays}
    \cup {DailyOf(<<>>), DailyOf(<<NullTempDay>>), DailyOf(<<NullGustDay>>), RaggedDaily}

NextFlags == Step(BoundaryResponses, KbFiles)

SpecFlags == InitOver({Wheat}) /\ [][NextFlags]_vars

---------------------------------------------------------------------------
(* A second invocation with the same inputs: the collaborators answer as   *)
(* they did, the crop and the knowledge-base file are the same.            *)

\* a response whose days come in the opposite order
Reverse(xs) == [i \in 1..Len(xs) |-> xs[Len(xs) + 1 - i]]

Reversed(daily) ==
    [time                 |-> Reverse(daily.time),
     temperature_2m_max   |-> Reverse(daily.temperature_2m_max),
     temperature_2m_min   |-> Reverse(daily.temperature_2m_min),
     precipitation_sum    |-> Reverse(daily.precipitation_sum),
     wind_speed_10m_max   |-> Reverse(daily.wind_speed_10m_max),
     wind_gusts_10m_max   |-> Reverse(daily.wind_gusts_10m_max)]

AgainDays == {KanpurDay2, KanpurDay3, RainyDay}

AgainResponses == DailyOver(AgainDays) \cup {Reversed(d) : d \in DailyOver(AgainDays)}

\* the caller invokes the function again: nothing of the first invocation
\* is passed in, its locals (df, CROP_RULES) are gone
Reanalyze ==
    /\ pc = "done"
    /\ result.kind = "ok"
    /\ first = Pending
    /\ first' = result
    /\ result' = Pending
    /\ df' = <<>>
    /\ CROP_RULES' = <<>>
    /\ pc' = "frame"
    /\ Logged("invoke", "again")
    /\ UNCHANGED <<kb_file, impl, crop_name, daily_data, hourly_data>>

NextAgain == StepWith(AgainResponses, HourlyResponses, KbFiles) \/ Reanalyze

SpecAgain == InitOver({Wheat, Maize}) /\ [][NextAgain]_vars

---------------------------------------------------------------------------
(* Windows of up to MaxDays + 1 mild days, with up to MaxSamples + 1       *)
(* humidity readings spread over the days, one of them after the window.   *)

Reading(d, hour, percent) ==
    [time |-> [date |-> Dates[d], hour |-> hour], humidity |-> Deg(percent)]

Readings ==
    {Reading(1, 0, 50), Reading(1, 12, 60), Reading(2, 0, 70), Reading(3, 0, 90),
     Reading(4, 0, 30)}

HumidityHourlies ==
    {HourlyOf(ss) : ss \in UNION {[1..n -> Readings] : n \in 0..(MaxSamples + 1)}}

HumidityDailies ==
    {DailyOf([i \in 1..n |-> KanpurDay2]) : n \in 0..(MaxDays + 1)} \cup {RaggedDaily}

NextHumidity == StepWith(HumidityDailies, HumidityHourlies, KbFiles)

SpecHumidity == InitOver({Wheat}) /\ [][NextHumidity]_vars

---------------------------------------------------------------------------
(* Days whose maximum rounds, to two decimals, onto a threshold of the     *)
(* classifier (38.004) or of the heat rule of the knowledge base (32.004). *)

JustOverHeatRed == Day(Num(380040), Deg(12), Deg(5), Deg(15), Deg(20))

JustOverHeatRule == Day(Num(320040), Deg(12), Deg(5), Deg(15), Deg(20))

RoundingDays == {JustOverHeatRed, JustOverHeatRule, KanpurDay2}

NextRounding == Step(DailyOver(RoundingDays), KbFiles)

SpecRounding == InitOver({Wheat}) /\ [][NextRounding]_vars

----------------------------------------------------------------------------
(* Dry days: days without rain, one of them mild on the other three axes   *)
(* and one with temp_max = temp_min, for every crop name.                  *)

DryMildDay == Day(Deg(30), Deg(12), Deg(0), Deg(15), Deg(20))

DryFlatDay == Day(Deg(20), Deg(20), Deg(0), Deg(15), Deg(20))

DryDays == {DryMildDay, DryFlatDay, KanpurDay2, KanpurDay3}

NextDry == Step(DailyOver(DryDays), KbFiles)

SpecDry == InitOver(CropNames) /\ [][NextDry]_vars

---------------------------------------------------------------------------
(* Properties.                                                             *)

Axes == {"heat", "cold", "water", "wind"}

HasMark(mark, label) == Contains(mark, label)

\* the level a label shows
Level(label) ==
    IF HasMark(<<"R","e","d">>, label) THEN "Alert"
    ELSE IF HasMark(<<"Y","e","l","l","o","w">>, label) THEN "Caution"
    ELSE IF HasMark(<<"G","r","e","e","n">>, label) THEN "Safe"
    ELSE "unknown"

Flagged(row) == "flags" \in DOMAIN row

Above(x, c) == x.k = "pinf" \/ (x.k = "num" /\ x.v > c)

Below(x, c) == x.k = "ninf" \/ (x.k = "num" /\ x.v < c)

LevelBy(alert, caution) == IF alert THEN "Alert" ELSE IF caution THEN "Caution" ELSE "Safe"

\* C1: every classified day follows the threshold table, with strict
\* boundaries: heat Alert iff temp_max > 38, Caution iff 32 < temp_max <= 38;
\* cold Alert iff temp_min < 5, Caution iff 5 <= temp_min < 10; water Alert
\* iff aridity_index < 0.5, Caution iff 0.5 <= aridity_index < 1; wind Alert
\* iff wind_gusts > 60, Caution iff 40 < wind_gusts <= 60; Safe otherwise.
C1_ThresholdTable ==
    \A i \in 1..Len(df) :
        Flagged(df[i]) =>
            LET r == df[i]
            IN  /\ Level(r.flags.heat) =
                     LevelBy(Above(r.temp_max, 380000),
                             Above(r.temp_max, 320000) /\ ~Above(r.temp_max, 380000))
                /\ Level(r.flags.cold) =
                     LevelBy(Below(r.temp_min, 50000),
                             Below(r.temp_min, 100000) /\ ~Below(r.temp_min, 50000))
                /\ Level(r.flags.water) =
                     LevelBy(Below(r.aridity_index, 5000),
                             Below(r.aridity_index, 10000) /\ ~Below(r.aridity_index, 5000))
                /\ Level(r.flags.wind) =
                     LevelBy(Above(r.wind_gusts, 600000),
                             Above(r.wind_gusts, 400000) /\ ~Above(r.wind_gusts, 600000))

\* a classified day that sits on all four upper thresholds: temp_max = 38,
\* temp_min = 5, aridity_index = 0.5, wind_gusts = 60
C1_Witness ==
    \E i \in 1..Len(df) :
        /\ Flagged(df[i])
        /\ df[i].temp_max = Deg(38) /\ Level(df[i].flags.heat) = "Caution"
        /\ df[i].temp_min = Deg(5) /\ Level(df[i].flags.cold) = "Caution"
        /\ df[i].wind_gusts = Deg(60) /\ Level(df[i].flags.wind) = "Caution"

\* a classified day whose aridity_index is exactly 0.5
C1_WaterOnThreshold ==
    \E i \in 1..Len(df) :
        /\ Flagged(df[i])
        /\ df[i].aridity_index = Num(5000)
        /\ Level(df[i].flags.water) = "Caution"

Levels == {"Alert", "Caution", "Safe"}

Marks == {<<"R","e","d">>, <<"Y","e","l","l","o","w">>, <<"G","r","e","e","n">>}

FourFlags(flags) ==
    /\ DOMAIN flags = Axes
    /\ \A a \in Axes :
        /\ Level(flags[a]) \in Levels
        /\ Cardinality({m \in Marks : HasMark(m, flags[a])}) = 1

\* C2: every day carries exactly the four flags heat, cold, water and wind,
\* each showing exactly one of the three levels, in the DataFrame and in any
\* returned result, also on days whose values are undefined.
C2_FourFlagsThreeLevels ==
    /\ \A i \in 1..Len(df) : Flagged(df[i]) => FourFlags(df[i].flags)
    /\ result.kind = "ok" =>
         \A i \in 1..Len(result.daily_forecast) :
            /\ Flagged(result.daily_forecast[i])
            /\ FourFlags(result.daily_forecast[i].flags)

\* a returned day whose temperature, gusts and aridity_index are all undefined
C2_Witness ==
    /\ result.kind = "ok"
    /\ impl = "tool"
    /\ \E i \in 1..Len(result.daily_forecast) :
        LET r == result.daily_forecast[i]
        IN  /\ r.temp_max.k = "nan" /\ r.temp_min.k = "nan"
            /\ r.wind_gusts.k = "nan" /\ r.aridity_index.k = "nan"
            /\ FourFlags(r.flags)

---------------------------------------------------------------------------
(* Recommendations, warnings and the verdict.                              *)

Recommended(row) == "recommendations" \in DOMAIN row

\* the rule set the requested crop resolves to, as the request looks it up
Resolved == DictGet(CROP_RULES, Lower(crop_name))

IsResolved == crop_name # NoCrop /\ Resolved.found /\ Resolved.rules # <<>>

\* the rule's condition is true of the day
Holds(rule, row) ==
    LET f == rule.when.field
    IN  /\ f \in DOMAIN row
        /\ f \in NumericColumns
        /\ \/ rule.when.op = "<" /\ Below(row[f], rule.when.k)
           \/ rule.when.op = ">" /\ Above(row[f], rule.when.k)

\* the rule's condition cannot be evaluated on the day
RaisesOn(rule, row) ==
    LET f == rule.when.field
    IN  \/ f \notin DOMAIN row
        \/ f \notin NumericColumns
        \/ row[f].k = "none"

Entry(rule) == <<"[">> \o Upper(rule.severity) \o <<"]", " ">> \o rule.advisory

\* the entries of the rules from the i-th on that hold, " | " between them
RECURSIVE EntriesFrom(_, _, _, _)
EntriesFrom(rules, row, i, started) ==
    IF i > Len(rules) THEN <<>>
    ELSE IF Holds(rules[i], row)
         THEN (IF started THEN <<" ", "|", " ">> ELSE <<>>) \o Entry(rules[i])
              \o EntriesFrom(rules, row, i + 1, TRUE)
         ELSE EntriesFrom(rules, row, i + 1, started)

FavorableText ==
    IF impl = "tool" THEN <<"C","o","n","d","i","t","i","o","n","s"," ","f","a","v","o","r","a","b","l","e",".">>
    ELSE <<"C","o","n","d","i","t","i","o","n","s"," ","a","r","e"," ","f","a","v","o","r","a","b","l","e","."," ","M","o","n","i","t","o","r"," ","t","h","e"," ","c","r","o","p",".">>

\* some flag of the day is at Alert level
AlertFlag(row) == \E a \in Axes : Level(row.flags[a]) = "Alert"

\* the day's recommendation carries an entry of Alert severity: a rule of
\* the crop that holds on the day and whose severity is red
AlertEntry(row) ==
    /\ IsResolved
    /\ \E j \in 1..Len(Resolved.rules) :
        /\ Holds(Resolved.rules[j], row)
        /\ Lower(Resolved.rules[j].severity) = <<"r","e","d">>

ToolAnswered == impl = "tool" /\ pc = "done" /\ result.kind = "ok"

Count(line, lines) == Cardinality({k \in 1..Len(lines) : lines[k] = line})

\* C3: the warning list holds the line "On <date>: <recommendation>" of a
\* day, once, if and only if a flag of the day is at Alert level or the
\* day's recommendation carries an entry of Alert severity.
C3_WarningIffAlert ==
    ToolAnswered =>
        \A i \in 1..Len(df) :
            Count(<<"On ", df[i].date, ": ", df[i].recommendations>>, result.key_insights)
                = IF AlertFlag(df[i]) \/ AlertEntry(df[i]) THEN 1 ELSE 0

\* C4: the verdict is challenging if and only if some day has a flag at
\* Alert level or a recommendation with an entry of Alert severity.
C4_VerdictIffAlert ==
    ToolAnswered =>
        (result.summary.verdict = "challenging"
            <=> \E i \in 1..Len(df) : AlertFlag(df[i]) \/ AlertEntry(df[i]))

\* C5: for a resolved crop the recommendation of a day is the entries
\* "[SEVERITY] advisory" of exactly the rules that hold on the day, in the
\* order of the rule set, or the favorable sentence when none holds.
C5_RecommendationIsMatchingRules ==
    \A i \in 1..Len(df) :
        (Recommended(df[i]) /\ IsResolved) =>
            df[i].recommendations =
                (IF \E j \in 1..Len(Resolved.rules) : Holds(Resolved.rules[j], df[i])
                 THEN EntriesFrom(Resolved.rules, df[i], 1, FALSE)
                 ELSE FavorableText)

FrostEntry == <<"[","H","I","G","H","]"," ","f","r","o","s","t"," ","r","i","s","k",","," ","d","e","l","a","y"," ","s","o","w","i","n","g">>

\* a cold day whose recommendation holds the frost entry and a second entry
\* after it, beside a day on which no rule holds
C5_Witness ==
    /\ IsResolved
    /\ pc = "done"
    /\ \E i, j \in 1..Len(df) :
        /\ Recommended(df[i]) /\ Recommended(df[j])
        /\ Below(df[i].temp_min, 50000)
        /\ Contains(FrostEntry \o <<" ", "|", " ", "[", "R", "E", "D", "]">>, df[i].recommendations)
        /\ df[j].recommendations = FavorableText

\* C6: a rule whose condition raises on a day adds nothing to that day's
\* recommendation and takes nothing from it: every other rule that holds on
\* the day is still printed, every day gets its recommendation, and once
\* the crop is resolved the request does not end with an exception.
C6_RaisingRuleSkipped ==
    /\ \A i \in 1..Len(df) :
        (Recommended(df[i]) /\ IsResolved) =>
            \A j \in 1..Len(Resolved.rules) :
                RaisesOn(Resolved.rules[j], df[i]) =>
                    /\ ~Contains(Entry(Resolved.rules[j]), df[i].recommendations)
                    /\ \A k \in 1..Len(Resolved.rules) :
                         Holds(Resolved.rules[k], df[i]) =>
                            Contains(Entry(Resolved.rules[k]), df[i].recommendations)
    /\ (IsResolved /\ pc \in {"respond", "done"}) =>
         /\ result.kind # "raised"
         /\ \A i \in 1..Len(df) : Recommended(df[i])

\* a request answered in full: on one day a rule raises and a rule after it
\* in the rule set holds and is printed, and there is another day
C6_Witness ==
    /\ IsResolved
    /\ pc = "done" /\ result.kind = "ok"
    /\ Len(df) >= 2
    /\ \E i \in 1..Len(df) : \E j, k \in 1..Len(Resolved.rules) :
        /\ j < k
        /\ RaisesOn(Resolved.rules[j], df[i])
        /\ Holds(Resolved.rules[k], df[i])
        /\ Contains(Entry(Resolved.rules[k]), df[i].recommendations)

GeneralText == <<"g","e","n","e","r","a","l"," ","w","e","a","t","h","e","r"," ","d","a","t","a">>

Unresolvable ==
    /\ crop_name # NoCrop
    /\ CROP_RULES # <<>>
    /\ \A i \in 1..Len(CROP_RULES) : Lower(CROP_RULES[i][1]) # Lower(crop_name)

NoKbText == <<"N","o"," ","k","n","o","w","l","e","d","g","e"," ","b","a","s","e"," ","f","o","r">>

\* C8: a crop that does not resolve does not abort the analysis: the
\* result is returned, with every day's date, weather fields, metrics and
\* flags, and every recommendation says there is no knowledge base.
C8_UnknownCropDoesNotAbort ==
    (Unresolvable /\ pc = "done") =>
        /\ result.kind = "ok"
        /\ Len(result.daily_forecast) = Len(daily_data.time)
        /\ \A i \in 1..Len(result.daily_forecast) :
            /\ Contains(NoKbText, result.daily_forecast[i].recommendations)
            /\ Flagged(result.daily_forecast[i])

\* a name or an alias of the loaded knowledge base that has rules is
\* crop_name up to the case of the letters
NamesKnownCrop ==
    /\ crop_name # NoCrop
    /\ \E i \in 1..Len(CROP_RULES) :
        /\ Lower(CROP_RULES[i][1]) = Lower(crop_name)
        /\ CROP_RULES[i][2] # <<>>

\* C9: a crop asked for by its name or alias in any letter case resolves to
\* its rule set, whatever the case used in the knowledge base: the request
\* is answered and no recommendation says there is no knowledge base.
C9_CaseInsensitiveResolution ==
    (NamesKnownCrop /\ pc = "done") =>
        /\ result.kind = "ok"
        /\ \A i \in 1..Len(result.daily_forecast) :
            ~Contains(NoKbText, result.daily_forecast[i].recommendations)

\* C10: the dates of a returned result are the dates of the daily response,
\* each once and in the same place: no day is dropped or duplicated.
C10_DatesPreserved ==
    (pc = "done" /\ result.kind = "ok") =>
        /\ Len(result.daily_forecast) = Len(daily_data.time)
        /\ \A i \in 1..Len(result.daily_forecast) :
            result.daily_forecast[i].date = daily_data.time[i]

\* a returned result of two days, one of which has no humidity sample
C10_Witness ==
    /\ pc = "done" /\ result.kind = "ok"
    /\ Len(result.daily_forecast) = 2
    /\ Len(hourly_data.time) = 1
    /\ result.daily_forecast[1].date # result.daily_forecast[2].date

Inverted(row) ==
    /\ row.temp_max.k = "num" /\ row.temp_min.k = "num"
    /\ row.temp_max.v < row.temp_min.v

\* C12: et0 of a day with temp_max < temp_min is NaN, and nothing is
\* raised for it: with the crop resolved (or none asked for) the request
\* returns a record for every day of the response, the day's et0 NaN in it.
C12_InvertedRangeIsNaN ==
    /\ \A i \in 1..Len(df) :
        (Inverted(df[i]) /\ "et0" \in DOMAIN df[i]) => df[i].et0.k = "nan"
    /\ (pc = "done" /\ (crop_name = NoCrop \/ IsResolved)
            /\ \E i \in 1..Len(df) : Inverted(df[i])) =>
         /\ result.kind = "ok"
         /\ Len(result.daily_forecast) = Len(daily_data.time)
         /\ \A i \in 1..Len(result.daily_forecast) :
              Inverted(result.daily_forecast[i]) =>
                 result.daily_forecast[i].et0.k = "nan"

\* a returned result of two days, one of them with temp_max < temp_min and
\* its et0 NaN
C12_Witness ==
    /\ pc = "done" /\ result.kind = "ok"
    /\ Len(result.daily_forecast) = 2
    /\ \E i \in 1..2 :
        /\ Inverted(result.daily_forecast[i])
        /\ result.daily_forecast[i].et0.k = "nan"
        /\ "recommendations" \in DOMAIN result.daily_forecast[i]

\* C13: on a day with a precipitation total and et0 >= 0 the aridity index
\* is a finite number, the quotient precip_mm / (et0 + 0.01) (here rounded
\* down to the unit of the model): the divisor is at least 0.01.
C13_AridityFinite ==
    \A i \in 1..Len(df) :
        ("aridity_index" \in DOMAIN df[i]
            /\ df[i].precip_mm.k = "num"
            /\ df[i].et0.k = "num" /\ df[i].et0.v >= 0) =>
        LET a == df[i].aridity_index
            d == df[i].et0.v + 100
        IN  /\ a.k = "num"
            /\ d >= 100
            /\ a.v * d <= df[i].precip_mm.v * 10000
            /\ df[i].precip_mm.v * 10000 < (a.v + 1) * d

\* rain on a day whose et0 is zero (temp_max = temp_min): the index is a
\* number
C13_Witness ==
    \E i \in 1..Len(df) :
        /\ "aridity_index" \in DOMAIN df[i]
        /\ df[i].et0 = Num(0)
        /\ df[i].precip_mm.k = "num" /\ df[i].precip_mm.v > 0
        /\ df[i].aridity_index.k = "num"

StableSentence == <<"N","o"," ","c","r","i","t","i","c","a","l"," ","w","a","r","n","i","n","g","s"," ","i","d","e","n","t","i","f","i","e","d","."," ","C","o","n","d","i","t","i","o","n","s"," ","a","r","e"," ","g","e","n","e","r","a","l","l","y"," ","s","t","a","b","l","e",".">>

\* C14: the warning list of a returned result is never empty; when no day
\* is critical it is the one fixed sentence, and when a day is critical the
\* sentence is not in it.
C14_WarningsNeverEmpty ==
    ToolAnswered =>
        /\ result.key_insights # <<>>
        /\ IF \E i \in 1..Len(df) : IsCritical(df[i])
           THEN Count(StableSentence, result.key_insights) = 0
           ELSE result.key_insights = <<StableSentence>>

\* a returned result none of whose days is critical
C14_Witness ==
    /\ ToolAnswered
    /\ Len(df) >= 1
    /\ \A i \in 1..Len(df) : ~IsCritical(df[i])
    /\ Len(result.key_insights) = 1

\* the step was made, with that outcome
Did(step, outcome) == \E k \in 1..Len(log) : log[k] = [step |-> step, outcome |-> outcome]

\* how many times the step was made
Times(step) == Cardinality({k \in 1..Len(log) : log[k].step = step})

AnalysisSteps ==
    {"humidity_merge", "metrics", "flags", "load_kb", "rules", "general_text", "summary"}

\* both forecast calls went through and the daily response holds no day
EmptyForecast ==
    /\ Did("daily", "ok") /\ Did("hourly", "ok")
    /\ \A k \in 1..Len(DailyLists(daily_data)) : DailyLists(daily_data)[k] = <<>>

\* C15: when the daily response is empty the request ends with the error
\* of the empty forecast, and no step of the analysis is made: no humidity
\* merge, no metrics, no flags, no knowledge-base load, no rule evaluation,
\* no summary.
C15_EmptyForecastStopsRequest ==
    EmptyForecast =>
        /\ pc \in {"frame", "done"}
        /\ \A s \in AnalysisSteps : Times(s) = 0
        /\ df = <<>> /\ CROP_RULES = <<>>
        /\ pc = "done" =>
             /\ Did("frame", "failed")
             /\ result = (IF impl = "tool"
                          THEN [kind |-> "error", error |-> "Could not construct DataFrame"]
                          ELSE [kind |-> "raised", exc |-> "ValueError"])

\* a request ended by an empty daily response
C15_Witness ==
    /\ EmptyForecast
    /\ pc = "done"
    /\ result.kind \in {"error", "raised"}
    /\ log[Len(log)] = [step |-> "frame", outcome |-> "failed"]

\* C16: when geocoding finds no match for the district the request ends
\* there with the geocoding error, and neither the daily nor the hourly
\* forecast is asked for.
C16_NoMatchNoForecastCall ==
    Did("geocoding", "no_match") =>
        /\ pc = "done"
        /\ result = (IF impl = "tool"
                     THEN [kind |-> "error", error |-> "No coordinates found"]
                     ELSE [kind |-> "raised", exc |-> "ValueError"])
        /\ Times("daily") = 0 /\ Times("hourly") = 0
        /\ daily_data = NoDaily /\ hourly_data = NoHourly
        /\ Len(log) = 1

\* a request of the tool ended by a district without a match
C16_Witness ==
    /\ Did("geocoding", "no_match")
    /\ impl = "tool"
    /\ pc = "done"
    /\ result.kind = "error"

WeatherFields == {"temp_max", "temp_min", "precip_mm", "wind_speed", "wind_gusts"}

\* every day of the result has a number in every weather field
Complete(r) ==
    /\ r.kind = "ok"
    /\ \A i \in 1..Len(r.daily_forecast) :
        \A f \in WeatherFields : r.daily_forecast[i][f].k = "num"

\* an error the code words itself: the payload {"error": message}, or an
\* exception it raises with a message of its own
OneClearError(r) ==
    \/ r.kind = "error"
    \/ r.kind = "raised" /\ r.exc \in {"ValueError", "ConnectionError", "FileNotFoundError"}

\* C17: whatever the collaborators answer, the caller gets a complete
\* result (every weather field of every day a number) or one clear error:
\* never a result with gaps, never a failure the code did not word.
C17_CompleteOrOneError ==
    pc = "done" => (Complete(result) \/ OneClearError(result))

\* the readings of the hourly response taken on the day of row i
ReadingsOn(i) == {k \in 1..Len(hourly_data.time) : hourly_data.time[k].date = df[i].date}

HasReading(i) == ReadingsOn(i) # {}

RECURSIVE SumOfReadings(_)
SumOfReadings(K) ==
    IF K = {} THEN 0
    ELSE LET k == CHOOSE x \in K : TRUE
         IN  hourly_data.relative_humidity_2m[k].v + SumOfReadings(K \ {k})

\* the mean of the day's own readings
OwnMean(i) == Num(SumOfReadings(ReadingsOn(i)) \div Cardinality(ReadingsOn(i)))

Earlier(i) == {j \in 1..(i - 1) : HasReading(j)}

Later(i) == {j \in (i + 1)..Len(df) : HasReading(j)}

\* the humidity the day is to have
HumidityOf(i) ==
    IF HasReading(i) THEN OwnMean(i)
    ELSE IF Earlier(i) # {} THEN OwnMean(CHOOSE j \in Earlier(i) : \A m \in Earlier(i) : m <= j)
    ELSE IF Later(i) # {} THEN OwnMean(CHOOSE j \in Later(i) : \A m \in Later(i) : j <= m)
    ELSE NaN

\* C18: after the merge a day with readings has their mean, a day without
\* has the value of the nearest earlier day that has readings, or if there
\* is none that of the nearest later one; so every day has a humidity as
\* soon as one day of the window has a reading, and none has if none does.
C18_HumidityFilled ==
    \A i \in 1..Len(df) :
        "humidity" \in DOMAIN df[i] =>
            /\ df[i].humidity = HumidityOf(i)
            /\ (\E j \in 1..Len(df) : HasReading(j)) => df[i].humidity.k = "num"
            /\ (\A j \in 1..Len(df) : ~HasReading(j)) => df[i].humidity.k = "nan"

\* three days, readings on the first and the third that differ: the second
\* has the humidity of the first
C18_Witness ==
    /\ Len(df) = 3
    /\ \A i \in 1..3 : "humidity" \in DOMAIN df[i]
    /\ HasReading(1) /\ ~HasReading(2) /\ HasReading(3)
    /\ df[1].humidity # df[3].humidity
    /\ df[2].humidity = df[1].humidity

\* two days, a reading on the second alone: the first has its humidity
C18_FilledBackward ==
    /\ Len(df) = 2
    /\ \A i \in 1..2 : "humidity" \in DOMAIN df[i]
    /\ ~HasReading(1) /\ HasReading(2)
    /\ df[1].humidity = df[2].humidity /\ df[1].humidity.k = "num"

\* the place of a date in the calendar
DateNo(d) == CHOOSE n \in 1..Len(Dates) : Dates[n] = d

Normalized == df # <<>> /\ \A i \in 1..Len(df) : "humidity" \in DOMAIN df[i]

\* C19: the normalized days are in strictly ascending order of date,
\* whatever the order of the daily response, and they are the dates of
\* that response.
C19_AscendingDates ==
    Normalized =>
        /\ \A i, j \in 1..Len(df) : i < j => DateNo(df[i].date) < DateNo(df[j].date)
        /\ {df[i].date : i \in 1..Len(df)}
             = {daily_data.time[i] : i \in 1..Len(daily_data.time)}

UpstreamCalls == {"geocoding", "daily", "hourly"}

\* the call was not answered
CallFailed(e) == e.step \in UpstreamCalls /\ e.outcome \notin {"ok", "found"}

\* C20: within a request geocoding, the daily fields and the hourly
\* humidity are each asked for at most once; a call that fails is the last
\* thing the request does and the caller gets the error; and the frame is
\* built, merged and analysed only after both forecast calls were answered.
C20_NoRetry ==
    /\ \A c \in UpstreamCalls : Times(c) <= 1
    /\ \A k \in 1..Len(log) :
        CallFailed(log[k]) =>
            /\ k = Len(log)
            /\ pc = "done"
            /\ result.kind \in {"error", "raised"}
    /\ (df # <<>> \/ \E s \in AnalysisSteps \cup {"frame"} : Times(s) > 0) =>
         /\ Did("daily", "ok") /\ Did("hourly", "ok")
         /\ log[2].step = "daily" /\ log[3].step = "hourly"

\* the hourly call failed after the daily one was answered: the request is
\* over, each call was made once
C20_Witness ==
    /\ Did("geocoding", "found") /\ Did("daily", "ok") /\ Did("hourly", "failed")
    /\ pc = "done"
    /\ result.kind \in {"error", "raised"}
    /\ Len(log) = 3
    /\ daily_data # NoDaily

\* C21: a missing knowledge-base file ends the request with one failure of
\* the load, which is not the outcome of an unknown crop: the file is
\* opened once, no rule is evaluated and no day gets a recommendation.
C21_MissingKbFailsOnce ==
    Did("load_kb", "missing") =>
        /\ pc = "done"
        /\ result = (IF impl = "tool"
                     THEN [kind |-> "error", error |-> "crop_knowledgebase.json not found."]
                     ELSE [kind |-> "raised", exc |-> "FileNotFoundError"])
        /\ Times("load_kb") = 1
        /\ Times("rules") = 0 /\ Times("summary") = 0
        /\ CROP_RULES = <<>>
        /\ \A i \in 1..Len(df) : ~Recommended(df[i])

\* a request of two days ended by the missing file
C21_Witness ==
    /\ Did("load_kb", "missing")
    /\ pc = "done"
    /\ Len(df) = 2
    /\ result.kind \in {"error", "raised"}

\* the names a rule condition may use: the observation and the metrics
PermittedFields ==
    {"temp_max", "temp_min", "precip_mm", "wind_speed", "wind_gusts", "humidity",
     "temp", "et0", "aridity_index"}

\* some rule of the file read names a field that is not permitted
UnknownFieldInFile ==
    \E c \in 1..Len(kb_file.crops) : \E j \in 1..Len(kb_file.crops[c].rules) :
        kb_file.crops[c].rules[j].when.field \notin PermittedFields

\* C22: a knowledge base with a rule on a field that is not permitted is
\* refused when it is loaded: the request ends with the error of the load
\* and the rule never reaches the evaluation of a day.
C22_UnknownFieldRejectedAtLoad ==
    UnknownFieldInFile =>
        /\ pc = "done"
        /\ result.kind \in {"error", "raised"}
        /\ Times("rules") = 0

\* the recommendation the rules give the day
RulesText(row) ==
    IF \E j \in 1..Len(Resolved.rules) : Holds(Resolved.rules[j], row)
    THEN EntriesFrom(Resolved.rules, row, 1, FALSE)
    ELSE FavorableText

\* the day as the daily response gave it
AsReceived(i) ==
    /\ df[i].temp_max = daily_data.temperature_2m_max[i]
    /\ df[i].temp_min = daily_data.temperature_2m_min[i]
    /\ df[i].precip_mm = daily_data.precipitation_sum[i]
    /\ df[i].wind_gusts = daily_data.wind_gusts_10m_max[i]

\* a threshold of the table is passed by the values as received
AlertAsReceived(i) ==
    \/ Above(daily_data.temperature_2m_max[i], 380000)
    \/ Below(daily_data.temperature_2m_min[i], 50000)
    \/ Below(df[i].aridity_index, 5000)
    \/ Above(daily_data.wind_gusts_10m_max[i], 600000)

\* C23: rounding is for the output alone: the flags, the recommendation,
\* the verdict and the warning list of a returned result are those of the
\* values as received, also when a value rounds onto a threshold.
C23_RoundingIsPresentationOnly ==
    (ToolAnswered /\ IsResolved) =>
        /\ \A i \in 1..Len(df) :
            LET rec == result.daily_forecast[i]
                tmax == daily_data.temperature_2m_max[i]
            IN  /\ AsReceived(i)
                /\ Level(rec.flags.heat)
                     = LevelBy(Above(tmax, 380000), Above(tmax, 320000))
                /\ rec.recommendations = RulesText(df[i])
                /\ Count(<<"On ", rec.date, ": ", RulesText(df[i])>>, result.key_insights)
                     = IF AlertAsReceived(i) \/ Contains(<<"R","E","D">>, RulesText(df[i]))
                       THEN 1 ELSE 0
        /\ result.summary.verdict = "challenging"
             <=> \E i \in 1..Len(df) : AlertAsReceived(i)

\* a returned day shown with temp_max 38.0 and flagged Alert for heat, and
\* one shown with 32.0 that has the entry of the heat rule
C23_Witness ==
    /\ ToolAnswered /\ IsResolved
    /\ \E i, j \in 1..Len(df) :
        /\ result.daily_forecast[i].temp_max = Num(380000)
        /\ Level(result.daily_forecast[i].flags.heat) = "Alert"
        /\ result.daily_forecast[j].temp_max = Num(320000)
        /\ Contains(<<"[","R","E","D","]">>, result.daily_forecast[j].recommendations)

\* C24: every number of every day of a returned result has one decimal: it
\* is a multiple of 0.1.
C24_OneDecimal ==
    ToolAnswered =>
        \A i \in 1..Len(result.daily_forecast) :
            \A n \in DOMAIN result.daily_forecast[i] :
                (n \in NumericColumns /\ result.daily_forecast[i][n].k = "num") =>
                    result.daily_forecast[i][n].v % 1000 = 0

\* a value of the response as a classified frame holds it: a null is NaN
Received(x) == IF x.k = "none" THEN NaN ELSE x

\* the four values of the i-th day of the daily response, and nothing else
OwnValues(i) ==
    [temp_max   |-> Received(daily_data.temperature_2m_max[i]),
     temp_min   |-> Received(daily_data.temperature_2m_min[i]),
     precip_mm  |-> Received(daily_data.precipitation_sum[i]),
     wind_gusts |-> Received(daily_data.wind_gusts_10m_max[i])]

\* C25: temp, et0, aridity_index and the four flags of a classified day are
\* a function of the day's own temp_max, temp_min, precip_mm and wind_gusts
\* as the response gave them: the other days, the humidity and the crop do
\* not enter.
C25_OwnValuesOnly ==
    \A i \in 1..Len(df) :
        Flagged(df[i]) =>
            LET own == OwnValues(i)
                et0 == Et0(own)
                aridity_index == AridityIndex(own.precip_mm, et0)
            IN  /\ df[i].temp = Temp(own)
                /\ df[i].et0 = et0
                /\ df[i].aridity_index = aridity_index
                /\ df[i].flags = Flags(WithColumn(own, "aridity_index", aridity_index))

\* a classified forecast of two days that differ, with a humidity reading
C25_Witness ==
    /\ Len(df) = 2
    /\ Flagged(df[1]) /\ Flagged(df[2])
    /\ OwnValues(1) # OwnValues(2)
    /\ df[1].humidity.k = "num"
    /\ df[1].et0.k = "num"

\* the row has every column the classifiers read, none of them a None
Classifiable(row) == "aridity_index" \in DOMAIN row /\ ~ClassifyRaises(row)

\* C26: on every row the classifier of agri_weather and the classifier of
\* weather_service show the same level on each of the four axes.
C26_ClassifiersAgree ==
    \A i \in 1..Len(df) :
        Classifiable(df[i]) =>
            \A a \in Axes :
                Level(classify_flags(df[i])[a]) = Level(_classify_agri_flags(df[i])[a])

\* a row on the Alert thresholds of the cold and the heat axis
C26_Witness ==
    /\ Len(df) = 2
    /\ Classifiable(df[1])
    /\ df[1].temp_min = Num(ToolColdRed)
    /\ df[1].temp_max = Num(SvcHeatRed)
    /\ Level(classify_flags(df[1]).cold) = "Caution"
    /\ Level(_classify_agri_flags(df[1]).heat) = "Caution"

Undefined(x) == x.k = "nan"

\* the value each axis is classified by
AxisInput(row, a) ==
    CASE a = "heat"  -> row.temp_max
      [] a = "cold"  -> row.temp_min
      [] a = "water" -> row.aridity_index
      [] a = "wind"  -> row.wind_gusts

\* no flag but the water flag is at Alert level, and no entry says RED
OnlyWaterCouldAlert(row) ==
    /\ \A a \in Axes \ {"water"} : Level(row.flags[a]) # "Alert"
    /\ ~Contains(<<"R","E","D">>, row.recommendations)

\* C27: an axis whose input is NaN is at the Safe level; a day with
\* temp_max < temp_min has et0 and aridity_index NaN and water Safe whatever
\* its precipitation, and the water axis gives it no line in the warning list.
C27_UndefinedIsSafe ==
    /\ \A i \in 1..Len(df) :
        Flagged(df[i]) =>
            /\ \A a \in Axes :
                Undefined(AxisInput(df[i], a)) => Level(df[i].flags[a]) = "Safe"
            /\ Inverted(df[i]) =>
                /\ Undefined(df[i].et0) /\ Undefined(df[i].aridity_index)
                /\ Level(df[i].flags.water) = "Safe"
    /\ ToolAnswered =>
        \A i \in 1..Len(df) :
            (Inverted(df[i]) /\ OnlyWaterCouldAlert(df[i])) =>
                Count(<<"On ", df[i].date, ": ", df[i].recommendations>>, result.key_insights) = 0

\* a returned result whose first day has temp_max < temp_min, no rain and
\* nothing but the water axis to make it critical
C27_Witness ==
    /\ ToolAnswered
    /\ Len(df) = 2
    /\ Inverted(df[1])
    /\ df[1].precip_mm = Num(0)
    /\ OnlyWaterCouldAlert(df[1])
    /\ Undefined(df[1].wind_gusts)

\* a day without rain whose temperature range is not inverted
Dry(row) ==
    /\ row.precip_mm = Num(0)
    /\ row.temp_max.k = "num" /\ row.temp_min.k = "num"
    /\ row.temp_max.v >= row.temp_min.v
    /\ row.et0.k = "num" /\ row.et0.v + 100 > 0

\* C28: a day with precip_mm = 0 and temp_max >= temp_min has aridity_index
\* 0 and water at Alert; a returned result with such a day has the verdict
\* challenging and the warning line of that day, whatever the crop and the
\* other three axes.
C28_DryDayIsChallenging ==
    /\ \A i \in 1..Len(df) :
        ("aridity_index" \in DOMAIN df[i] /\ Dry(df[i])) =>
            /\ df[i].aridity_index = Num(0)
            /\ Flagged(df[i]) => Level(df[i].flags.water) = "Alert"
    /\ ToolAnswered =>
        \A i \in 1..Len(df) :
            Dry(df[i]) =>
                /\ result.summary.verdict = "challenging"
                /\ Count(<<"On ", df[i].date, ": ", df[i].recommendations>>, result.key_insights) >= 1

\* a returned result for a crop without rules, whose second day is dry and
\* Safe on the other three axes and whose first day is not dry
C28_Witness ==
    /\ ToolAnswered
    /\ ~IsResolved
    /\ Len(df) = 2
    /\ ~Dry(df[1])
    /\ Dry(df[2])
    /\ \A a \in Axes \ {"water"} : Level(df[2].flags[a]) = "Safe"
    /\ result.summary.verdict = "challenging"

\* a line "On <date>: <recommendation>" of the warning list
RealLine(line) == Len(line) = 4 /\ line[1] = "On " /\ line[3] = ": "

\* C29: in a returned result a challenging verdict comes with at least one
\* line "On <date>: ..." in the warning list, and a warning list that is the
\* fixed sentence comes with the favorable verdict.
C29_VerdictAndWarningsAgree ==
    ToolAnswered =>
        /\ result.summary.verdict = "challenging" =>
                \E k \in 1..Len(result.key_insights) : RealLine(result.key_insights[k])
        /\ result.key_insights = <<StableSentence>> =>
                result.summary.verdict = "favorable"

\* a challenging result for a crop without rules: its one warning line is
\* owed to a flag
C29_Witness ==
    /\ ToolAnswered
    /\ ~IsResolved
    /\ result.summary.verdict = "challenging"
    /\ Len(result.key_insights) = 1
    /\ RealLine(result.key_insights[1])

\* the loaded knowledge base has the crop, in some letter case, and every
\* entry of the crop has an empty rule list
EmptyRuleList ==
    /\ crop_name # NoCrop
    /\ \E i \in 1..Len(CROP_RULES) : Lower(CROP_RULES[i][1]) = Lower(crop_name)
    /\ \A i \in 1..Len(CROP_RULES) :
        Lower(CROP_RULES[i][1]) = Lower(crop_name) => CROP_RULES[i][2] = <<>>

\* C30: a crop of the knowledge base with an empty rule list is treated as
\* an unknown crop: get_crop_recommendation raises ValueError, agri_weather
\* answers with "No knowledge base for '<crop>'." on every day, and no day
\* gets the favorable sentence.
C30_EmptyRuleListIsUnknownCrop ==
    (EmptyRuleList /\ Times("rules") = 1) =>
        /\ impl = "service" =>
            /\ result = Raised("ValueError")
            /\ Did("rules", "failed")
        /\ impl = "tool" =>
            /\ Did("rules", "ok")
            /\ \A i \in 1..Len(df) : df[i].recommendations = NoKnowledgeBase(crop_name)
            /\ pc = "done" =>
                /\ result.kind = "ok"
                /\ \A i \in 1..Len(result.daily_forecast) :
                    result.daily_forecast[i].recommendations = NoKnowledgeBase(crop_name)
        /\ \A i \in 1..Len(df) :
            Recommended(df[i]) => ~Contains(FavorableText, df[i].recommendations)

\* get_crop_recommendation was asked for a crop whose rule list is empty,
\* on a frame of two days
C30_Witness ==
    /\ impl = "service"
    /\ EmptyRuleList
    /\ Resolved.found
    /\ Len(df) = 2
    /\ Times("rules") = 1
    /\ pc = "done"

\* agri_weather answered for a crop whose rule list is empty
C30_ToolAnswered ==
    /\ ToolAnswered
    /\ EmptyRuleList
    /\ Resolved.found
    /\ Len(df) = 2

====
